---- MODULE Spec2Model ----
(***************************************************************************)
(* A model of the dmsc solver core (src/src/solver.cpp): the visibility    *)
(* cache built by Solver::createCache and the queries nextVisibility,      *)
(* nextCommunication and lowerBound that read it; and of the Instance      *)
(* container (src/src/instance.cpp): the file loader, the copy constructor,*)
(* operator=, removeInvalidEdges and lineGraph.                            *)
(*                                                                         *)
(* Time is an integer number of ticks.  step_size is a number of ticks, so *)
(* with step_size > 1 there are instants between two samples of the cache, *)
(* as there are between two float samples in the program.  +infinity is    *)
(* the number INFINITY, larger than every finite time of the model; sums   *)
(* with it stay >= INFINITY, as IEEE sums with +inf stay +inf.             *)
(*                                                                         *)
(* Timeline, InterSatelliteLink and Satellite are declared in headers that *)
(* are not part of src/; their operations (insert, nextTimeWithEvent,      *)
(* isBlocked, canAlign, getPeriod, getRotationSpeed) follow spec.md.       *)
(***************************************************************************)
EXTENDS Integers, Sequences, FiniteSets, TLC

(* ------------------------------ bounds -------------------------------- *)
\* step_size ranges over 1..MaxStep ticks.
MaxStep == 2
\* A link's period ranges over 2..MaxPeriod ticks.
MaxPeriod == 4
\* Query start times range over 0..MaxT0.
MaxT0 == 5
\* Rotation speeds range over 0..MaxRotationSpeed (0: the antenna cannot turn).
MaxRotationSpeed == 1
\* Number of links of the instance under Spec (SpecComm has one link).
NumLinks == 2
\* Start times are compared with the times up to MaxShift periods later.
MaxShift == 2
\* The widget's simulated time stays within -MaxSimTime..MaxSimTime seconds,
MaxSimTime == 4
\* its speed is set to at most MaxSpeed,
MaxSpeed == 2
\* and a frame takes up to MaxDelta seconds.
MaxDelta == 2
\* A freeze-tag solution schedules up to MaxScans scans
MaxScans == 3
\* at times 0..MaxScanTime.
MaxScanTime == 2

\* An instance file has at most MaxOrbits orbit records that load ...
MaxOrbits == 2
\* ... and at most MaxEdges link records that load.
MaxEdges == 2
\* The instances handed to lineGraph have up to GraphOrbits orbits ...
GraphOrbits == 3
\* ... and up to GraphEdges links.
GraphEdges == 3

(* -------------------------- program constants ------------------------- *)
\* INFINITY of <cmath>.
INFINITY == 1000000
\* M_PI, in ticks * rotation-speed units: a satellite of speed 1 needs
\* PiUnits ticks for a half turn.
PiUnits == 3

\* radius_earth of sphereIntersection, in km.
radius_earth == 6378

\* The values of the loader's mode (enum of instance.h).
READ_INIT == 0
READ_ORBIT == 1
READ_EDGE == 2

Periods == 2..MaxPeriod
RotationSpeeds == 0..MaxRotationSpeed
StartTimes == 0..MaxT0
\* Times from which an orientation snapshot may make a link alignable.
AlignFroms == (0..(MaxT0 + PiUnits + MaxPeriod + 1)) \cup {INFINITY}

IsInf(x) == x >= INFINITY
Max(a, b) == IF a >= b THEN a ELSE b
\* float division: x / 0.0f is +inf for x > 0.
Div(x, y) == IF y = 0 THEN INFINITY ELSE x \div y
\* fmodf / std::fmod for non-negative arguments.
fmod(x, y) == x % y

VARIABLES
    step_size,              \* Solver::step_size
    orbits,                 \* instance.orbits: sequence of [rotation_speed]
    edges,                  \* instance.edges: sequence of links
    satellite_orientation,  \* Solver::satellite_orientation, per link the
                            \* alignment window its two snapshots give
    edge_time_slots,        \* Solver::edge_time_slots: per link its Timeline
    cached,                 \* the links that are keys of the map edge_time_slots
    pc,                     \* "new" | "ready" | "comm" | "done" | "diverged"
    call,                   \* the locals of the running nextCommunication
    ret,                    \* the last call and the value it returned
    instances,              \* the Instance objects of instance.cpp, by name
    last,                   \* the last operation on an Instance
    disk,                   \* the lines of the instance file on disk
    widget                  \* the OpenGLWidget of opengl_widgets.cpp

vars == <<step_size, orbits, edges, satellite_orientation, edge_time_slots,
          cached, pc, call, ret, instances, last, disk, widget>>
solverVars == <<step_size, orbits, edges, satellite_orientation,
                edge_time_slots, cached, pc, call, ret>>
instVars == <<instances, last, disk>>
\* What the code of one source file leaves alone.
nonSolverVars == <<instVars, widget>>
nonInstVars == <<solverVars, widget>>
nonWidgetVars == <<solverVars, instVars>>

\* The widget before any instance is shown: the members as deleteInstance
\* leaves them (opengl_widgets.cpp:1131-1138), playing; where the widget is
\* in its code (pc), the last thing it did (event) with the DeltaTime and
\* the t0 of it; the locals of the freeze-tag show.
NoWidget ==
    [state |-> "EMPTY", paused |-> FALSE, sim_time |-> 0, sim_speed |-> 1,
     animation |-> {}, pc |-> "closed", event |-> "none", diff |-> 0, t0 |-> 0,
     scan_cover |-> <<>>, satellites_with_message |-> {}, edge_order |-> <<>>,
     next |-> 0, scan_time |-> 0, satellites_done |-> <<>>]

NoCall == [edge |-> 0, time_0 |-> 0, t_visible |-> 0, t_max |-> 0, t |-> 0]
NoRet == [op |-> "none", edge |-> 0, time_0 |-> 0, value |-> 0, path |-> "none"]

(* ============================== Instance ============================== *)
(* src/src/instance.cpp.  An Instance owns a vector of orbits and a vector *)
(* of links; a link holds the addresses of its two orbits.  An address is  *)
(* the buffer of a vector of orbits and a position in it (positions count  *)
(* from 1 here, orbit indices of a file from 0).                           *)
Slots == {"a", "b"}
\* Buffers the allocator can hand out for vectors of orbits; 0 is no buffer.
BufIds == 1..(Cardinality(Slots) + 1)
Ptr(b, i) == [buf |-> b, idx |-> i]
Null == Ptr(0, 0)

\* No object: the name is not bound to a constructed Instance.
NoInstance ==
    [alive |-> FALSE, loading |-> FALSE, mode |-> 0, radius_central_mass |-> 0,
     gravitational_parameter |-> 0, buf |-> 0, orbits |-> <<>>, edges |-> <<>>]
\* A field of a record: text that std::stof / std::stoi convert to a number,
\* or text at which they throw.
Num(v) == [ok |-> TRUE, value |-> v]
Malformed == [ok |-> FALSE, value |-> 0]
\* A line of the file: the separator "===END===" or a record of fields.
EndLine == [end |-> TRUE, fields |-> <<>>]
Record(fs) == [end |-> FALSE, fields |-> fs]
\* The record of the last operation: its name, the objects it ran on, the
\* number of links its target held before, the graph it returned, the value
\* save returned (for the file constructor: whether the file was opened).
NoOp == [op |-> "none", target |-> "none", source |-> "none", held |-> 0,
        graph |-> <<>>, result |-> FALSE]
\* The file of save and of the file constructor: whether it exists, whether
\* it can be opened for writing, its lines.
NoFile == [exists |-> FALSE, writable |-> TRUE, lines |-> <<>>]

\* &inst.orbits[i]
OrbitAddr(inst, i) == Ptr(inst.buf, i)
\* p is the address of an element of inst.orbits.
OwnOrbit(inst, p) == p.buf = inst.buf /\ p.idx \in 1..Len(inst.orbits)

(* ------------------- InterSatelliteLink and Satellite ----------------- *)
\* A link: its two orbits (indices into orbits), its period and the phases of
\* the period at which the Earth blocks it.  Link i joins orbits i and i + 1.
Link(i, p, bl) == [v1 |-> i, v2 |-> i + 1, period |-> p, blocked |-> bl]

getPeriod(edge) == edge.period
\* The blocking pattern repeats exactly with the link's period.
isBlocked(edge, t) == fmod(t, getPeriod(edge)) \in edge.blocked
getRotationSpeed(v) == orbits[v].rotation_speed

\* An orientation snapshot of a link's two satellites, reduced to what
\* canAlign reads from it: the time from which both antennas can point along
\* the link (INFINITY: never), and whether they can keep doing so afterwards
\* or only at that instant.
Orientations == [from : AlignFroms, hold : BOOLEAN]
canAlign(o, t) == o.from <= t /\ (o.hold \/ t = o.from) /\ ~IsInf(o.from)

(* ------------------------------ Timeline ------------------------------ *)
\* Timeline::insert keeps the events ordered by t_begin.
RECURSIVE insert(_, _)
insert(timeline, slot) ==
    IF timeline = <<>> THEN <<slot>>
    ELSE IF slot.t_begin < Head(timeline).t_begin THEN <<slot>> \o timeline
    ELSE <<Head(timeline)>> \o insert(Tail(timeline), slot)

InSlot(timeline, t) ==
    \E i \in 1..Len(timeline) : timeline[i].t_begin <= t /\ t < timeline[i].t_end
SlotStarts(timeline) == {timeline[i].t_begin : i \in 1..Len(timeline)}
MinOf(S) == CHOOSE x \in S : \A y \in S : x <= y

\* Timeline::nextTimeWithEvent(t, true): t itself when an event covers t,
\* else the begin of the next event, else (wrapping) the begin of the first
\* event; the sentinel +infinity for an empty timeline.
nextTimeWithEvent(timeline, t) ==
    IF timeline = <<>> THEN INFINITY
    ELSE IF InSlot(timeline, t) THEN t
    ELSE IF \E b \in SlotStarts(timeline) : b >= t
         THEN MinOf({b \in SlotStarts(timeline) : b >= t})
    ELSE MinOf(SlotStarts(timeline))

(* ------------------------- Solver::createCache ------------------------ *)
RECURSIVE ScanFor(_, _, _, _)
\* The loop of findNextVisiblity (wantBlocked = FALSE) and of findLastVisible
\* (wantBlocked = TRUE): the first sample t, t + step_size, ... <= t_last
\* whose blocking state is wantBlocked, or INFINITY.
ScanFor(edge, wantBlocked, t, t_last) ==
    IF t > t_last THEN INFINITY
    ELSE IF isBlocked(edge, t) = wantBlocked THEN t
    ELSE ScanFor(edge, wantBlocked, t + step_size, t_last)

\* A search over every tick instead of the samples of the step_size grid.
findNextVisiblityBad(edge, t0) ==
    LET S == {t \in t0..(t0 + getPeriod(edge)) : ~isBlocked(edge, t)}
    IN  IF S = {} THEN INFINITY ELSE MinOf(S)
findNextVisiblity(edge, t0) == ScanFor(edge, FALSE, t0, t0 + getPeriod(edge))

\* The first blocked sample instead of the last visible one.
findLastVisibleBad(edge, t0) == ScanFor(edge, TRUE, t0, t0 + getPeriod(edge))
findLastVisible(edge, t0) ==
    LET t == ScanFor(edge, TRUE, t0, t0 + getPeriod(edge))
    IN  IF IsInf(t) THEN INFINITY ELSE t - step_size

\* The end of the slot that begins at t_next (solver.cpp:79-82).
SlotEndBad(edge, t_next) == findLastVisible(edge, t_next)
SlotEnd(edge, t_next) ==
    LET t_end == findLastVisible(edge, t_next)
    IN  IF IsInf(t_end) \/ t_end >= getPeriod(edge) THEN getPeriod(edge) ELSE t_end

\* Where the scan resumes after a slot was stored: t = slot.t_end, then the
\* loop's t += step_size (solver.cpp:86, 73).
ResumeBad(slot) == slot.t_begin + step_size
ResumeAfter(slot) == slot.t_end + step_size

RECURSIVE CacheLoop(_, _, _)
CacheLoop(edge, t, timeline) ==
    IF ~(t < getPeriod(edge)) THEN timeline
    ELSE LET t_next == findNextVisiblity(edge, t)
         IN  IF IsInf(t_next) \/ t_next >= getPeriod(edge) THEN timeline
             ELSE LET slot == [t_begin |-> t_next, t_end |-> SlotEnd(edge, t_next)]
                  IN  CacheLoop(edge, ResumeAfter(slot), insert(timeline, slot))

createCache(es) == [i \in 1..Len(es) |-> CacheLoop(es[i], 0, <<>>)]

RECURSIVE ProducedSlots(_, _, _)
\* The slots in the order in which the loop of createCache hands them to
\* Timeline::insert (solver.cpp:73-87).
ProducedSlots(edge, t, slots) ==
    IF ~(t < getPeriod(edge)) THEN slots
    ELSE LET t_next == findNextVisiblity(edge, t)
         IN  IF IsInf(t_next) \/ t_next >= getPeriod(edge) THEN slots
             ELSE LET slot == [t_begin |-> t_next, t_end |-> SlotEnd(edge, t_next)]
                  IN  ProducedSlots(edge, ResumeAfter(slot), Append(slots, slot))

(* ------------------------ Solver::nextVisibility ---------------------- *)
WholePeriodsBad(edge, t0) == 0
\* n_periods = period * (int)(t0 / period) (solver.cpp:97).
WholePeriods(edge, t0) == getPeriod(edge) * (t0 \div getPeriod(edge))

\* n_periods after "loop applied" (solver.cpp:100-102).
LoopAppliedBad(n_periods, period) == n_periods
LoopApplied(n_periods, period) == n_periods + period

nextVisibility(i, t0) ==
    IF Len(edge_time_slots[i]) = 0 THEN INFINITY
    ELSE LET t == fmod(t0, getPeriod(edges[i]))
             n_periods == WholePeriods(edges[i], t0)
             t_next == nextTimeWithEvent(edge_time_slots[i], t)
         IN  IF t_next < t
             THEN t_next + LoopApplied(n_periods, getPeriod(edges[i]))
             ELSE t_next + n_periods

(* -------------------------- Solver::lowerBound ------------------------ *)
LowerBoundStepBad(lower_bound, t) == IF t > lower_bound THEN t ELSE lower_bound
\* One iteration of the loop of lowerBound (solver.cpp:13-15).
LowerBoundStep(lower_bound, t) ==
    IF t > lower_bound /\ t < INFINITY THEN t ELSE lower_bound

RECURSIVE LowerBoundLoop(_, _)
LowerBoundLoop(i, lower_bound) ==
    IF i > Len(edges) THEN lower_bound
    ELSE LowerBoundLoop(i + 1, LowerBoundStep(lower_bound, nextVisibility(i, 0)))

lowerBound == LowerBoundLoop(1, 0)

(* ------------------------------ actions ------------------------------- *)
\* A solver constructed on an instance of n links whose periods are drawn
\* from ps, rotation speeds from rs and orientation snapshots from os; its
\* cache is still empty.
InitInstance(n, ps, rs, os) ==
    /\ step_size \in 1..MaxStep
    /\ orbits \in [1..(n + 1) -> [rotation_speed : rs]]
    /\ \E per \in [1..n -> ps] :
          \E bl \in [1..n -> SUBSET (0..(MaxPeriod - 1))] :
              /\ \A i \in 1..n : bl[i] \subseteq 0..(per[i] - 1)
              /\ edges = [i \in 1..n |-> Link(i, per[i], bl[i])]
    /\ satellite_orientation \in [1..n -> os]
    /\ edge_time_slots = [i \in 1..n |-> <<>>]
    /\ pc = "new"
    /\ call = NoCall
    /\ ret = NoRet
    /\ cached = {}
    /\ instances = [s \in Slots |-> NoInstance]
    /\ last = NoOp
    /\ disk = NoFile
    /\ widget = NoWidget

\* The instance of Spec: no link, or NumLinks links of satellites at one
\* altitude, so of one period; the queries of Spec read neither rotation
\* speeds nor orientations, which are fixed.
Init ==
    \E n \in {0, NumLinks}, p \in Periods :
        InitInstance(n, {p}, {MaxRotationSpeed}, {[from |-> 0, hold |-> TRUE]})

\* The keys of the map after createCache: edge_time_slots[&edge] makes the
\* entry of a link when its first slot is inserted (solver.cpp:84).
CachedBy(slots) == {i \in 1..Len(slots) : slots[i] # <<>>}
\* edge_time_slots[&edge] in nextVisibility (solver.cpp:92, 99):
\* std::map::operator[] makes an empty entry for a link that has none.
Looked(keys, i) == keys \cup {i}

\* Solver::createCache()
CreateCache ==
    /\ pc = "new"
    /\ edge_time_slots' = createCache(edges)
    /\ cached' = CachedBy(createCache(edges))
    /\ pc' = "ready"
    /\ UNCHANGED nonSolverVars
    /\ UNCHANGED <<step_size, orbits, edges, satellite_orientation, call, ret>>

\* Solver::nextVisibility(edge, t0)
CallNextVisibility ==
    /\ pc = "ready"
    /\ \E i \in 1..Len(edges), t0 \in StartTimes :
          /\ ret' = [op |-> "nextVisibility", edge |-> i, time_0 |-> t0,
                     value |-> nextVisibility(i, t0), path |-> "none"]
          /\ cached' = Looked(cached, i)
    /\ pc' = "done"
    /\ UNCHANGED nonSolverVars
    /\ UNCHANGED <<step_size, orbits, edges, satellite_orientation,
                   edge_time_slots, call>>

\* Solver::lowerBound()
CallLowerBound ==
    /\ pc = "ready"
    /\ ret' = [op |-> "lowerBound", edge |-> 0, time_0 |-> 0,
               value |-> lowerBound, path |-> "none"]
    /\ cached' = cached \cup (1..Len(edges))
    /\ pc' = "done"
    /\ UNCHANGED nonSolverVars
    /\ UNCHANGED <<step_size, orbits, edges, satellite_orientation,
                   edge_time_slots, call>>

\* The caller takes the returned value; the solver is ready for the next query.
Return ==
    /\ pc = "done"
    /\ pc' = "ready"
    /\ ret' = NoRet
    /\ call' = NoCall
    /\ UNCHANGED nonSolverVars
    /\ UNCHANGED <<step_size, orbits, edges, satellite_orientation,
                   edge_time_slots, cached>>

(* ----------------------- Solver::nextCommunication -------------------- *)
\* t_max (solver.cpp:38-40): the time of a half turn of the slower satellite
\* plus one period.
SearchHorizon(edge) ==
    Max(Div(PiUnits, getRotationSpeed(edge.v1)), Div(PiUnits, getRotationSpeed(edge.v2)))
        + getPeriod(edge)

\* The two branches of the jump over a blocked stretch (solver.cpp:53-57).
JumpWrappedBad(t, t_next, t_relative, period) == t + t_next - t_relative
JumpWrapped(t, t_next, t_relative, period) == t + t_next + period - t_relative
JumpForwardBad(t, t_next, t_relative) == t + t_next
JumpForward(t, t_next, t_relative) == t + t_next - t_relative

\* t after the body of "if (edge.isBlocked(t))" (solver.cpp:45-57);
\* edge_time_slots.find(&edge) finds the entry nextVisibility has read.
SkipBlocked(i, t) ==
    LET t_relative == fmod(t, getPeriod(edges[i]))
        t_next == nextTimeWithEvent(edge_time_slots[i], t_relative)
    IN  IF t_next < t_relative
        THEN JumpWrapped(t, t_next, t_relative, getPeriod(edges[i]))
        ELSE JumpForward(t, t_next, t_relative)

\* The time the loop body tests with canAlign (solver.cpp:43-60).
ProbeTime(i, t) == IF isBlocked(edges[i], t) THEN SkipBlocked(i, t) ELSE t

\* The test that makes the loop return t (solver.cpp:60-62).
LoopAcceptsBad(i, t) == canAlign(satellite_orientation[i], t)
LoopAccepts(i, t) ==
    canAlign(satellite_orientation[i], t) /\ ~isBlocked(edges[i], t)

\* The test of the direct return (solver.cpp:32).
DirectAccepts(i, t_visible) == canAlign(satellite_orientation[i], t_visible)

\* No instant from t on at which canAlign holds.
NoLaterAlign(o, t) == IsInf(o.from) \/ (~o.hold /\ o.from < t)

RECURSIVE ReturnsWithin(_, _, _)
\* The loop, entered at t, returns within n iterations.
ReturnsWithin(i, t, n) ==
    /\ n > 0
    /\ \/ LoopAccepts(i, ProbeTime(i, t))
       \/ ReturnsWithin(i, ProbeTime(i, t) + step_size, n - 1)

\* The loop can neither leave by its condition (t_max is +infinity) nor by
\* its return: either canAlign fails at every later instant, or canAlign
\* holds from now on and the loop, whose step then depends on the phase of t
\* alone, has passed through a phase twice without returning.
RunsForever ==
    /\ IsInf(call.time_0 + call.t_max)
    /\ LET o == satellite_orientation[call.edge]
       IN  \/ NoLaterAlign(o, call.t)
           \/ /\ o.hold
              /\ o.from <= call.t
              /\ ~ReturnsWithin(call.edge, call.t, getPeriod(edges[call.edge]) + 1)

\* "edge is never visible?" (solver.cpp:23).
NeverVisibleBad(t_visible) == FALSE
NeverVisible(t_visible) == t_visible >= INFINITY

\* nextCommunication up to its loop (solver.cpp:20-42).
NCStart ==
    /\ pc = "ready"
    /\ \E i \in 1..Len(edges), t0 \in StartTimes :
          LET t_visible == nextVisibility(i, t0)
              locals == [edge |-> i, time_0 |-> t0, t_visible |-> t_visible,
                         t_max |-> SearchHorizon(edges[i]), t |-> t_visible]
          IN  /\ cached' = Looked(cached, i)
              /\ IF NeverVisible(t_visible)
                 THEN /\ ret' = [op |-> "nextCommunication", edge |-> i, time_0 |-> t0,
                                 value |-> INFINITY, path |-> "never_visible"]
                      /\ call' = [locals EXCEPT !.t_max = 0]
                      /\ pc' = "done"
                 ELSE IF DirectAccepts(i, t_visible)
                 THEN /\ ret' = [op |-> "nextCommunication", edge |-> i, time_0 |-> t0,
                                 value |-> t_visible, path |-> "direct"]
                      /\ call' = [locals EXCEPT !.t_max = 0]
                      /\ pc' = "done"
                 ELSE /\ call' = locals
                      /\ pc' = "comm"
                      /\ ret' = ret
    /\ UNCHANGED nonSolverVars
    /\ UNCHANGED <<step_size, orbits, edges, satellite_orientation, edge_time_slots>>

\* One iteration of the search loop (solver.cpp:42-65).
NCIter ==
    /\ pc = "comm"
    /\ call.t <= call.time_0 + call.t_max
    /\ ~RunsForever
    /\ LET t == ProbeTime(call.edge, call.t)
       IN  IF LoopAccepts(call.edge, t)
           THEN /\ ret' = [op |-> "nextCommunication", edge |-> call.edge,
                           time_0 |-> call.time_0, value |-> t, path |-> "loop"]
                /\ call' = [call EXCEPT !.t = t]
                /\ pc' = "done"
           ELSE /\ call' = [call EXCEPT !.t = t + step_size]
                /\ UNCHANGED <<pc, ret>>
    /\ UNCHANGED nonSolverVars
    /\ UNCHANGED <<step_size, orbits, edges, satellite_orientation, edge_time_slots,
                   cached>>

\* The loop condition fails (solver.cpp:42, 68).
NCExit ==
    /\ pc = "comm"
    /\ ~(call.t <= call.time_0 + call.t_max)
    /\ ret' = [op |-> "nextCommunication", edge |-> call.edge,
               time_0 |-> call.time_0, value |-> INFINITY, path |-> "horizon"]
    /\ pc' = "done"
    /\ UNCHANGED nonSolverVars
    /\ UNCHANGED <<step_size, orbits, edges, satellite_orientation,
                   edge_time_slots, cached, call>>

\* The loop has reached a point from which it never returns.
NCDiverge ==
    /\ pc = "comm"
    /\ RunsForever
    /\ pc' = "diverged"
    /\ UNCHANGED nonSolverVars
    /\ UNCHANGED <<step_size, orbits, edges, satellite_orientation,
                   edge_time_slots, cached, call, ret>>

Next ==
    \/ CreateCache
    \/ CallNextVisibility
    \/ CallLowerBound
    \/ Return

Spec == Init /\ [][Next]_vars

\* A solver on an instance of one link, any rotation speeds and any orientation
\* snapshot: the specification of the nextCommunication claims (the call reads
\* nothing of any other link).
InitComm == InitInstance(1, Periods, RotationSpeeds, Orientations)

NextComm ==
    \/ CreateCache
    \/ CallNextVisibility
    \/ NCStart
    \/ NCIter
    \/ NCExit
    \/ NCDiverge
    \/ Return

SpecComm == InitComm /\ [][NextComm]_vars
(* ---------------------- Solver::sphereIntersection -------------------- *)
\* Positions are points of a plane through the centre of the central mass,
\* in km.  The two satellites of a link are at one height y over the x axis
\* and at different x, so that the unit vector from one to the other is
\* (1, 0) or (-1, 0) and every quantity of the test but the square root is a
\* whole number.
Point(x, y) == [x |-> x, y |-> y]
dot(u, v) == u.x * v.x + u.y * v.y
Minus(u, v) == Point(u.x - v.x, u.y - v.y)
\* glm::length and glm::normalize of a vector along the x axis.
length(u) == IF u.x < 0 THEN -u.x ELSE u.x
normalize(u) == Point(IF u.x < 0 THEN -1 ELSE 1, 0)

\* The numbers base + sqrt(square) and base - sqrt(square), and their
\* comparison with a whole number x, decided without rounding.
PlusRoot(base, square) == [base |-> base, square |-> square, plus |-> TRUE]
MinusRoot(base, square) == [base |-> base, square |-> square, plus |-> FALSE]
Below(d, x) ==
    IF d.plus
    THEN x - d.base > 0 /\ d.square < (x - d.base) * (x - d.base)
    ELSE x - d.base > 0 \/ d.square > (x - d.base) * (x - d.base)

\* Satellite::cartesian_coordinates(time)
cartesian_coordinates(v, time) == orbits[v].track[time]

\* "a" and "discr" for a sphere of the given radius about the origin
\* (solver.cpp:138-141).
RayA(sat1, sat2) == dot(normalize(Minus(sat2, sat1)), sat1)
Discr(sat1, sat2, radius) ==
    RayA(sat1, sat2) * RayA(sat1, sat2) - (dot(sat1, sat1) - radius * radius)

\* "no intersection at all" (solver.cpp:144).
NoIntersection(discr) == discr <= 0

\* Solver::sphereIntersection(edge, time)
sphereIntersection(edge, time) ==
    LET sat1 == cartesian_coordinates(edge.v1, time)
        sat2 == cartesian_coordinates(edge.v2, time)
        a == RayA(sat1, sat2)
        discr == Discr(sat1, sat2, radius_earth)
        d1 == PlusRoot(-a, discr)
        d2 == MinusRoot(-a, discr)
        dist_between_sat == length(Minus(sat1, sat2))
    IN  IF NoIntersection(discr) THEN FALSE
        ELSE IF Below(d1, 0) /\ Below(d2, 0) THEN FALSE
        ELSE IF ~Below(d1, dist_between_sat) /\ ~Below(d2, dist_between_sat) THEN FALSE
        ELSE TRUE

\* The positions of the satellites of SpecRay, at its two times.
RayPoints == {Point(x, y) : x \in {-14000, -7000, 7000, 14000}, y \in {0, 3000, 6378, 7000}}
RayTimes == {0, 1}

\* A solver on an instance of one link between two satellites that are side
\* by side at both times, about a central mass of the radius of the Earth
\* or of the Moon.
InitRay ==
    /\ step_size = 1
    /\ \E r \in {radius_earth, 1737} :
          edges = <<[v1 |-> 1, v2 |-> 2, radius_central_mass |-> r]>>
    /\ \E k1, k2 \in [RayTimes -> RayPoints] :
          /\ \A t \in RayTimes : k1[t].y = k2[t].y /\ k1[t].x # k2[t].x
          /\ orbits = <<[rotation_speed |-> 0, track |-> k1],
                        [rotation_speed |-> 0, track |-> k2]>>
    /\ satellite_orientation = <<>>
    /\ edge_time_slots = <<>>
    /\ cached = {}
    /\ pc = "ready"
    /\ call = NoCall
    /\ ret = NoRet
    /\ instances = [s \in Slots |-> NoInstance]
    /\ last = NoOp
    /\ disk = NoFile
    /\ widget = NoWidget

\* Solver::sphereIntersection(edge, time)
CallSphereIntersection ==
    /\ pc = "ready"
    /\ \E i \in 1..Len(edges), time \in RayTimes :
          ret' = [op |-> "sphereIntersection", edge |-> i, time_0 |-> time,
                  value |-> sphereIntersection(edges[i], time), path |-> "none"]
    /\ pc' = "done"
    /\ UNCHANGED nonSolverVars
    /\ UNCHANGED <<step_size, orbits, edges, satellite_orientation,
                   edge_time_slots, cached, call>>

NextRay ==
    \/ CallSphereIntersection
    \/ Return

SpecRay == InitRay /\ [][NextRay]_vars

(* ---------------- Instance::Instance(const std::string&) -------------- *)

\* The k-th std::getline(ss, value_cache, ','): past the last field it
\* leaves value_cache empty, at which the conversions throw as well.
Field(line, k) == IF k <= Len(line.fields) THEN line.fields[k] ELSE Malformed
Throws(field) == ~field.ok

\* The records a file offers in each section.  A record acts through the
\* fields its section reads, so each section is given records of its own
\* shape: two fields for the first and the last section, eight for an orbit.
HeaderRecords ==
    {Record(<<r, g>>) : r \in {Malformed, Num(1)}, g \in {Malformed, Num(2)}}
OrbitKinds == {1, 2}
OrbitRecord(id, h) == Record(<<id, Num(h), Num(0), Num(0), Num(0), Num(0), Num(0), Num(1)>>)
OrbitRecords ==
    {OrbitRecord(Num(0), h) : h \in OrbitKinds}
        \cup {OrbitRecord(Malformed, 1)}
        \cup {Record([OrbitRecord(Num(0), 1).fields EXCEPT ![k] = Malformed]) : k \in {2, 8}}
EdgeFields == {Malformed} \cup {Num(i) : i \in (-1)..MaxOrbits}
EdgeRecords == {Record(<<a, b>>) : a, b \in EdgeFields}

\* case READ_INIT (instance.cpp:55-60): the radius is assigned before the
\* second field is converted.
ReadInit(inst, line) ==
    IF Throws(Field(line, 1)) THEN inst
    ELSE IF Throws(Field(line, 2))
    THEN [inst EXCEPT !.radius_central_mass = Field(line, 1).value]
    ELSE [inst EXCEPT !.radius_central_mass = Field(line, 1).value,
                      !.gravitational_parameter = Field(line, 2).value]

\* case READ_ORBIT (instance.cpp:61-80): the first field is read and
\* ignored, the next seven are converted, then the orbit is pushed.
ReadOrbit(inst, line) ==
    IF \E k \in 2..8 : Throws(Field(line, k)) THEN inst
    ELSE [inst EXCEPT !.orbits = Append(@,
            [height_perigee |-> Field(line, 2).value,
             eccentricity |-> Field(line, 3).value,
             true_anomaly |-> Field(line, 4).value,
             raan |-> Field(line, 5).value,
             argument_periapsis |-> Field(line, 6).value,
             inclination |-> Field(line, 7).value,
             rotation_speed |-> Field(line, 8).value])]

\* orbits.at(index) throws std::out_of_range unless 0 <= index < size.
AtThrows(inst, index) == index < 0 \/ index >= Len(inst.orbits)

\* case READ_EDGE (instance.cpp:81-88).
ReadEdge(inst, line) ==
    LET a == Field(line, 1)
        b == Field(line, 2)
    IN  IF Throws(a) \/ Throws(b) THEN inst
        ELSE IF AtThrows(inst, a.value) \/ AtThrows(inst, b.value) THEN inst
        ELSE [inst EXCEPT !.edges = Append(@,
                [v1 |-> OrbitAddr(inst, a.value + 1),
                 v2 |-> OrbitAddr(inst, b.value + 1),
                 radius_central_mass |-> inst.radius_central_mass])]

\* One turn of the loop over the lines (instance.cpp:43-95).  Every mode
\* beyond READ_EDGE ignores records alike, so mode stops counting there.
ReadLine(inst, line) ==
    IF line.end
    THEN [inst EXCEPT !.mode = IF @ > READ_EDGE THEN @ ELSE @ + 1]
    ELSE IF inst.mode = READ_INIT THEN ReadInit(inst, line)
    ELSE IF inst.mode = READ_ORBIT THEN ReadOrbit(inst, line)
    ELSE IF inst.mode = READ_EDGE THEN ReadEdge(inst, line)
    ELSE inst

\* The lines a file may hold next when its reader is in the given mode.
NextLines(mode) ==
    {EndLine} \cup (IF mode = READ_INIT THEN HeaderRecords
                    ELSE IF mode = READ_ORBIT THEN OrbitRecords
                    ELSE EdgeRecords)

\* The object when the constructor has opened the file (instance.cpp:33-41).
OpenedFile(b) ==
    [alive |-> TRUE, loading |-> TRUE, mode |-> READ_INIT, radius_central_mass |-> 0,
     gravitational_parameter |-> 0, buf |-> b, orbits |-> <<>>, edges |-> <<>>]

(* ------------- Instance(const Instance&) and operator= ---------------- *)
\* A copy that keeps the address held by the source's link.
RemapBad(source, b, p) == p
\* orbit_map[p]: the map takes &source.orbits[i] to &orbits[i]; for any other
\* key std::map::operator[] makes an entry holding the null pointer.
Remap(source, b, p) == IF OwnOrbit(source, p) THEN Ptr(b, p.idx) ELSE Null

\* The links emplaced by the loop over source.edges (instance.cpp:24-28,
\* 122-126), the new orbits being in buffer b.
CopyEdges(source, b) ==
    [k \in 1..Len(source.edges) |->
        [v1 |-> Remap(source, b, source.edges[k].v1),
         v2 |-> Remap(source, b, source.edges[k].v2),
         radius_central_mass |-> source.edges[k].radius_central_mass]]

\* Instance::Instance(const Instance& source); its orbits are in buffer b.
CopyOf(source, b) ==
    [alive |-> TRUE, loading |-> FALSE, mode |-> READ_INIT,
     radius_central_mass |-> source.radius_central_mass,
     gravitational_parameter |-> source.gravitational_parameter,
     buf |-> b, orbits |-> source.orbits, edges |-> CopyEdges(source, b)]

\* edges.clear() (instance.cpp:121).
ClearedBad(es) == es
Cleared(es) == <<>>

\* Instance::operator=(const Instance& source) on another object than the
\* source; after orbits = source.orbits and shrink_to_fit the orbits are in
\* buffer b.
AssignedFrom(target, source, b) ==
    [target EXCEPT !.radius_central_mass = source.radius_central_mass,
                   !.gravitational_parameter = source.gravitational_parameter,
                   !.buf = b,
                   !.orbits = source.orbits,
                   !.edges = Cleared(@) \o CopyEdges(source, b)]

\* The buffers no constructed Instance holds.
FreeBufs == BufIds \ {instances[s].buf : s \in {x \in Slots : instances[x].alive}}

(* -------------------- Instance::removeInvalidEdges -------------------- *)
\* The orbit stored at an address; what is read through an address that is
\* no orbit of a constructed Instance is arbitrary, here an orbit of kind 0.
Garbage ==
    [height_perigee |-> 0, eccentricity |-> 0, true_anomaly |-> 0, raan |-> 0,
     argument_periapsis |-> 0, inclination |-> 0, rotation_speed |-> 0]
OrbitAt(p) ==
    IF \E s \in Slots : instances[s].alive /\ OwnOrbit(instances[s], p)
    THEN LET s == CHOOSE s \in Slots : instances[s].alive /\ OwnOrbit(instances[s], p)
         IN  instances[s].orbits[p.idx]
    ELSE Garbage

\* Edge::getPeriod and Edge::isBlocked at a whole second.  The orbits of the
\* records are of two kinds, on opposite sides of the central mass: a link
\* between satellites of different kinds is blocked throughout; a link
\* between two satellites of kind 2 is blocked at the first second of its
\* period and visible after it; any other link is never blocked.
EdgePeriod(e) == 2 + Max(OrbitAt(e.v1).height_perigee, OrbitAt(e.v2).height_perigee)
EdgeBlocked(e, t) ==
    \/ OrbitAt(e.v1).height_perigee # OrbitAt(e.v2).height_perigee
    \/ OrbitAt(e.v1).height_perigee = 2 /\ t % EdgePeriod(e) = 0

SampleLoopBad(e, t) == ~EdgeBlocked(e, t)
RECURSIVE SampleLoop(_, _)
\* get_visible after the loop over t = 0, 1, 2, ... < period
\* (instance.cpp:135-141).
SampleLoop(e, t) ==
    IF ~(t < EdgePeriod(e)) THEN FALSE
    ELSE IF ~EdgeBlocked(e, t) THEN TRUE
    ELSE SampleLoop(e, t + 1)

\* "!get_visible" (instance.cpp:144).
NeverVisibleAtSamples(e) == ~SampleLoop(e, 0)

\* edges.erase(edges.begin() + i)
Erase(es, i) == SubSeq(es, 1, i - 1) \o SubSeq(es, i + 1, Len(es))

RECURSIVE RemoveLoop(_, _)
\* The loop from the last link down to the first (instance.cpp:133-147).
RemoveLoop(es, i) ==
    IF i < 1 THEN es
    ELSE RemoveLoop(IF NeverVisibleAtSamples(es[i]) THEN Erase(es, i) ELSE es, i - 1)

removeInvalidEdges(inst) == [inst EXCEPT !.edges = RemoveLoop(@, Len(@))]

(* --------------------------- Instance::save --------------------------- *)
RECURSIVE Shown(_)
\* A float as operator<< writes it and std::stof reads it back: six
\* significant digits (values of the model are whole and not negative).
Shown(v) == IF v < 1000000 THEN v ELSE 10 * Shown((v + 5) \div 10)

SaveOrbitBad(i, orbit) ==
    Record(<<Num(i), Num(Shown(orbit.height_perigee)), Num(Shown(orbit.eccentricity)),
             Num(Shown(orbit.true_anomaly)), Num(Shown(orbit.argument_periapsis)),
             Num(Shown(orbit.raan)), Num(Shown(orbit.inclination)),
             Num(Shown(orbit.rotation_speed))>>)
\* The record of orbits.at(i) (instance.cpp:216-223); i counts from 0.
SaveOrbit(i, orbit) ==
    Record(<<Num(i), Num(Shown(orbit.height_perigee)), Num(Shown(orbit.eccentricity)),
             Num(Shown(orbit.true_anomaly)), Num(Shown(orbit.raan)),
             Num(Shown(orbit.argument_periapsis)), Num(Shown(orbit.inclination)),
             Num(Shown(orbit.rotation_speed))>>)

\* orbit_to_id[p] (instance.cpp:230-231): std::map::operator[] gives 0 for
\* an address that is no orbit of the instance.
OrbitToId(inst, p) == IF OwnOrbit(inst, p) THEN p.idx - 1 ELSE 0

\* The lines save writes to an opened file (instance.cpp:207-233): the
\* radius and the gravitational parameter, the orbits, the links.
SaveLines(inst) ==
    <<Record(<<Num(Shown(inst.radius_central_mass)),
               Num(Shown(inst.gravitational_parameter))>>), EndLine>>
        \o [i \in 1..Len(inst.orbits) |-> SaveOrbit(i - 1, inst.orbits[i])]
        \o <<EndLine>>
        \o [k \in 1..Len(inst.edges) |->
                Record(<<Num(OrbitToId(inst, inst.edges[k].v1)),
                         Num(OrbitToId(inst, inst.edges[k].v2))>>)]

saveBad(inst, file) ==
    [result |-> TRUE, file |-> [file EXCEPT !.exists = TRUE, !.lines = SaveLines(inst)]]
\* Instance::save(file): what it returns and the file it leaves.  Opening
\* the file for writing empties it.
save(inst, file) ==
    IF ~file.writable THEN [result |-> FALSE, file |-> file]
    ELSE [result |-> TRUE,
          file |-> [file EXCEPT !.exists = TRUE, !.lines = SaveLines(inst)]]

RECURSIVE ReadLines(_, _)
\* The loop over the lines of a file (instance.cpp:43-95).
ReadLines(inst, lines) ==
    IF lines = <<>> THEN inst
    ELSE ReadLines(ReadLine(inst, Head(lines)), Tail(lines))

\* Instance::Instance(file), its orbits in buffer b: a file that cannot be
\* opened leaves the members as they are constructed (instance.cpp:37-41).
FileConstructed(file, b) ==
    IF ~file.exists THEN [OpenedFile(b) EXCEPT !.loading = FALSE]
    ELSE [ReadLines(OpenedFile(b), file.lines) EXCEPT !.loading = FALSE]

(* ------------------------- Instance::lineGraph ------------------------ *)
\* Links are numbered from 1 here (from 0 in the program).
\* "&edge.getV1() == &vertex || &edge.getV2() == &vertex"
TouchesBad(edge, vertex) == edge.v1 = vertex
Touches(edge, vertex) == edge.v1 = vertex \/ edge.v2 = vertex

RECURSIVE SeqOfSet(_)
\* The elements of a set of numbers in increasing order.
SeqOfSet(S) == IF S = {} THEN <<>> ELSE <<MinOf(S)>> \o SeqOfSet(S \ {MinOf(S)})

\* adj_list of one vertex: the links connected to it, in increasing order
\* (instance.cpp:163-169).
AdjOfVertex(inst, v) ==
    SeqOfSet({i \in 1..Len(inst.edges) : Touches(inst.edges[i], OrbitAddr(inst, v))})

RECURSIVE GatherLoop(_, _, _)
\* The loop over the vertices (instance.cpp:161-175): the list of a vertex
\* is put in front of the list of each link connected to it.
GatherLoop(inst, v, lists) ==
    IF v > Len(inst.orbits) THEN lists
    ELSE LET adj_list == AdjOfVertex(inst, v)
             member == {adj_list[k] : k \in 1..Len(adj_list)}
         IN  GatherLoop(inst, v + 1,
                 [i \in 1..Len(lists) |->
                     IF i \in member THEN adj_list \o lists[i] ELSE lists[i]])

RECURSIVE Sort(_)
\* std::sort
Sort(list) ==
    IF list = <<>> THEN <<>>
    ELSE LET m == MinOf({list[k] : k \in 1..Len(list)})
             at == CHOOSE k \in 1..Len(list) : list[k] = m
         IN  <<m>> \o Sort(Erase(list, at))

RECURSIVE Unique(_)
UniqueBad(list) == list
\* erase(std::unique(...), end()): of equal neighbours the first is kept.
Unique(list) ==
    IF Len(list) < 2 THEN list
    ELSE IF list[1] = list[2] THEN Unique(Tail(list))
    ELSE <<list[1]>> \o Unique(Tail(list))

\* adj_list.erase(std::find(adj_list.begin(), adj_list.end(), i)).  A list
\* without i makes this erase(end()), which is undefined: the list may come
\* out unchanged or without its last element.
EraseFound(list, i, cut) ==
    IF \E k \in 1..Len(list) : list[k] = i
    THEN Erase(list, CHOOSE k \in 1..Len(list) :
                        list[k] = i /\ \A j \in 1..(k - 1) : list[j] # i)
    ELSE IF cut /\ list # <<>> THEN SubSeq(list, 1, Len(list) - 1)
    ELSE list

\* Instance::lineGraph(); cut chooses the outcome of an undefined erase.
lineGraph(inst, cut) ==
    LET gathered == GatherLoop(inst, 1, [i \in 1..Len(inst.edges) |-> <<>>])
    IN  [i \in 1..Len(inst.edges) |-> EraseFound(Unique(Sort(gathered[i])), i, cut)]

(* -------------------------- Instance actions -------------------------- *)
\* No solver is involved in the steps of the Instance specifications.
SolverIdle ==
    /\ step_size = 1
    /\ orbits = <<>>
    /\ edges = <<>>
    /\ satellite_orientation = <<>>
    /\ edge_time_slots = <<>>
    /\ cached = {}
    /\ pc = "new"
    /\ call = NoCall
    /\ ret = NoRet

Ready(s) == instances[s].alive /\ ~instances[s].loading

\* The constructor of "a" has opened its file; there is no other Instance.
InitInst ==
    /\ SolverIdle
    /\ instances = [s \in Slots |-> IF s = "a" THEN OpenedFile(1) ELSE NoInstance]
    /\ last = NoOp
    /\ disk = NoFile
    /\ widget = NoWidget

\* The loader reads one more line (instance.cpp:43-95).
LoadLine ==
    /\ \E s \in Slots : \E line \in NextLines(instances[s].mode) :
          LET inst == ReadLine(instances[s], line)
          IN  /\ instances[s].alive
              /\ instances[s].loading
              /\ Len(inst.orbits) <= MaxOrbits
              /\ Len(inst.edges) <= MaxEdges
              /\ instances' = [instances EXCEPT ![s] = inst]
    /\ UNCHANGED <<last, disk>>
    /\ UNCHANGED nonInstVars

\* std::getline meets the end of the file; the constructor returns
\* (instance.cpp:43, 97) and its local variable mode is gone.
LoadEnd ==
    /\ \E s \in Slots :
          /\ instances[s].alive
          /\ instances[s].loading
          /\ instances' = [instances EXCEPT ![s].loading = FALSE, ![s].mode = READ_INIT]
    /\ UNCHANGED <<last, disk>>
    /\ UNCHANGED nonInstVars

\* Instance dst(src): a new object is copy-constructed.  The allocator hands
\* out a free buffer; which one makes no difference, so the least is taken.
CopyConstruct ==
    /\ last.op = "none"
    /\ \E dst, src \in Slots :
          /\ ~instances[dst].alive
          /\ Ready(src)
          /\ instances' = [instances EXCEPT ![dst] = CopyOf(instances[src], MinOf(FreeBufs))]
          /\ last' = [NoOp EXCEPT !.op = "copy", !.target = dst, !.source = src]
    /\ UNCHANGED disk
    /\ UNCHANGED nonInstVars

\* dst = src.  Self-assignment returns at once (instance.cpp:104-105);
\* otherwise the target's orbits end up in the buffer they were in or in a
\* free one.
Assign ==
    /\ last.op = "none"
    /\ \E dst, src \in Slots :
          /\ Ready(dst)
          /\ Ready(src)
          /\ IF dst = src
             THEN instances' = instances
             ELSE \E b \in {instances[dst].buf, MinOf(FreeBufs)} :
                     instances' = [instances EXCEPT
                                     ![dst] = AssignedFrom(instances[dst], instances[src], b)]
          /\ last' = [NoOp EXCEPT !.op = "assign", !.target = dst, !.source = src,
                                  !.held = Len(instances[dst].edges)]
    /\ UNCHANGED disk
    /\ UNCHANGED nonInstVars

\* s.removeInvalidEdges()
RemoveInvalidEdges ==
    /\ last.op = "none"
    /\ \E s \in Slots :
          /\ Ready(s)
          /\ instances' = [instances EXCEPT ![s] = removeInvalidEdges(instances[s])]
          /\ last' = [NoOp EXCEPT !.op = "removeInvalidEdges", !.target = s,
                                  !.held = Len(instances[s].edges)]
    /\ UNCHANGED disk
    /\ UNCHANGED nonInstVars

\* The operation has returned; its caller goes on.
OpReturn ==
    /\ last.op # "none"
    /\ last' = NoOp
    /\ UNCHANGED <<instances, disk>>
    /\ UNCHANGED nonInstVars

NextInst ==
    \/ LoadLine
    \/ LoadEnd
    \/ CopyConstruct
    \/ Assign
    \/ RemoveInvalidEdges
    \/ OpReturn

SpecInst == InitInst /\ [][NextInst]_vars

(* ---------------------- saving and loading files --------------------- *)
\* The orbit records of the files of SpecFile: every column has a value of
\* its own, and the perigee height of the second kind has seven digits.
FileOrbitRecords ==
    {Record(<<Num(9), Num(h), Num(0), Num(3), Num(4), Num(5), Num(6), Num(1)>>) :
        h \in {1, 1234567}}
FileEdgeRecords == {Record(<<Num(i), Num(j)>>) : i, j \in 0..(MaxOrbits - 1)}
SeqsUpTo(S, n) == UNION {[1..m -> S] : m \in 0..n}
\* The instance files: a header, orbit records, link records.
InputFiles ==
    {<<h, EndLine>> \o os \o <<EndLine>> \o es :
        h \in {Record(<<Num(1), Num(2)>>), Record(<<Num(1234567), Malformed>>)},
        os \in SeqsUpTo(FileOrbitRecords, MaxOrbits),
        es \in SeqsUpTo(FileEdgeRecords, MaxEdges)}

\* "a" has been constructed from an instance file; the file save is to
\* write does not exist yet, and can be opened for writing or cannot.
InitFile ==
    /\ SolverIdle
    /\ \E lines \in InputFiles :
          instances = [s \in Slots |->
              IF s = "a"
              THEN FileConstructed([NoFile EXCEPT !.exists = TRUE, !.lines = lines], 1)
              ELSE NoInstance]
    /\ last = NoOp
    /\ disk \in {[NoFile EXCEPT !.writable = w] : w \in BOOLEAN}
    /\ widget = NoWidget

\* s.save(file)
Save ==
    /\ last.op = "none"
    /\ \E s \in Slots :
          /\ Ready(s)
          /\ disk' = save(instances[s], disk).file
          /\ last' = [NoOp EXCEPT !.op = "save", !.target = s,
                                  !.result = save(instances[s], disk).result]
    /\ UNCHANGED instances
    /\ UNCHANGED nonInstVars

\* Instance s(file): a new object is constructed from the file.
Load ==
    /\ last.op = "none"
    /\ \E s \in Slots :
          /\ ~instances[s].alive
          /\ instances' = [instances EXCEPT ![s] = FileConstructed(disk, MinOf(FreeBufs))]
          /\ last' = [NoOp EXCEPT !.op = "load", !.target = s, !.result = disk.exists]
    /\ UNCHANGED disk
    /\ UNCHANGED nonInstVars

NextFile ==
    \/ Save
    \/ Load
    \/ OpReturn

SpecFile == InitFile /\ [][NextFile]_vars

\* An Instance as the loader leaves it after a file of n orbit records of
\* one kind and the link records es (pairs of positions).
Loaded(n, es) ==
    [alive |-> TRUE, loading |-> FALSE, mode |-> READ_EDGE,
     radius_central_mass |-> 1, gravitational_parameter |-> 2, buf |-> 1,
     orbits |-> [k \in 1..n |-> ReadOrbit(OpenedFile(1), OrbitRecord(Num(0), 1)).orbits[1]],
     edges |-> [k \in 1..Len(es) |->
                  [v1 |-> Ptr(1, es[k][1]), v2 |-> Ptr(1, es[k][2]),
                   radius_central_mass |-> 1]]]

\* The instances of SpecGraph: up to GraphOrbits orbits and GraphEdges links
\* between any two of them.
InitGraph ==
    /\ SolverIdle
    /\ \E n \in 0..GraphOrbits : \E m \in 0..GraphEdges :
          \E es \in [1..m -> (1..n) \X (1..n)] :
              instances = [s \in Slots |-> IF s = "a" THEN Loaded(n, es) ELSE NoInstance]
    /\ last = NoOp
    /\ disk = NoFile
    /\ widget = NoWidget

\* s.lineGraph()
CallLineGraph ==
    /\ last.op = "none"
    /\ \E s \in Slots : \E cut \in BOOLEAN :
          /\ Ready(s)
          /\ last' = [NoOp EXCEPT !.op = "lineGraph", !.target = s,
                                  !.graph = lineGraph(instances[s], cut)]
    /\ UNCHANGED <<instances, disk>>
    /\ UNCHANGED nonInstVars

NextGraph ==
    \/ CallLineGraph
    \/ OpReturn

SpecGraph == InitGraph /\ [][NextGraph]_vars

(* ----------------------------- OpenGLWidget --------------------------- *)
\* Times of the widget are whole seconds.
\* OpenGLWidget::deleteInstance()
deleteInstance(w) ==
    [w EXCEPT !.state = "EMPTY", !.animation = {}, !.sim_speed = 1, !.sim_time = 0]

\* OpenGLWidget::prepareInstance(instance), as far as it writes the members
\* of the model (opengl_widgets.cpp:826-829).
prepareInstance(w) == [deleteInstance(w) EXCEPT !.state = "INSTANCE"]

\* OpenGLWidget::show(instance, animation, t0) up to the first turn of the
\* loop of openWindow.
show(w, animation, t0) ==
    [prepareInstance(w) EXCEPT !.animation = animation, !.sim_time = t0,
                               !.t0 = t0, !.pc = "gui", !.event = "show"]

recalculateBad(w, diff) ==
    IF w.state = "EMPTY" THEN w ELSE [w EXCEPT !.sim_time = @ + diff * w.sim_speed]
\* OpenGLWidget::recalculate(), as far as it writes the members of the model
\* (opengl_widgets.cpp:517-525).
recalculate(w, diff) ==
    IF w.state = "EMPTY" THEN w
    ELSE IF ~w.paused THEN [w EXCEPT !.sim_time = @ + diff * w.sim_speed]
    ELSE w

\* A widget has been constructed; no instance is shown.  The members are
\* initialised in the class definition; paused may be set or not.
InitWidget ==
    /\ SolverIdle
    /\ instances = [s \in Slots |-> NoInstance]
    /\ last = NoOp
    /\ disk = NoFile
    /\ widget \in {[NoWidget EXCEPT !.paused = p] : p \in BOOLEAN}

\* show(instance, t0): the instance is prepared and the window loop starts.
Show ==
    /\ widget.pc = "closed"
    /\ \E t0 \in 0..MaxSimTime : widget' = show(widget, {}, t0)
    /\ UNCHANGED nonWidgetVars

\* buildGUI in a frame in which "Play"/"Pause" is pressed.
PlayPause ==
    /\ widget.pc = "gui"
    /\ widget' = [widget EXCEPT !.paused = ~@, !.pc = "render", !.event = "play_pause"]
    /\ UNCHANGED nonWidgetVars

\* buildGUI in a frame in which "Restart" is pressed.
Restart ==
    /\ widget.pc = "gui"
    /\ widget' = [widget EXCEPT !.sim_time = 0, !.sim_speed = 1, !.pc = "render",
                                !.event = "restart"]
    /\ UNCHANGED nonWidgetVars

\* buildGUI in a frame in which "Speed" is edited (ImGui::InputInt takes any
\* int).
InputSpeed ==
    /\ widget.pc = "gui"
    /\ \E v \in (-1)..MaxSpeed :
          widget' = [widget EXCEPT !.sim_speed = v, !.pc = "render", !.event = "speed"]
    /\ UNCHANGED nonWidgetVars

\* buildGUI in a frame without input to the members of the model.
NoInput ==
    /\ widget.pc = "gui"
    /\ widget' = [widget EXCEPT !.pc = "render", !.event = "none"]
    /\ UNCHANGED nonWidgetVars

\* renderScene in a frame: recalculate() with the DeltaTime of the frame.
Recalculate ==
    /\ widget.pc = "render"
    /\ \E diff \in 0..MaxDelta :
          /\ recalculate(widget, diff).sim_time \in (-MaxSimTime)..MaxSimTime
          /\ widget' = [recalculate(widget, diff) EXCEPT !.diff = diff, !.pc = "gui",
                                                       !.event = "frame"]
    /\ UNCHANGED nonWidgetVars

\* glfwWindowShouldClose(window): the loop ends and show returns.
CloseWindow ==
    /\ widget.pc = "gui"
    /\ widget' = [widget EXCEPT !.pc = "closed", !.event = "close"]
    /\ UNCHANGED nonWidgetVars

\* ~OpenGLWidget(): destroy() calls deleteInstance().
DeleteInstance ==
    /\ widget.pc = "closed"
    /\ widget' = [deleteInstance(widget) EXCEPT !.pc = "destroyed",
                                              !.event = "deleteInstance"]
    /\ UNCHANGED nonWidgetVars

NextWidget ==
    \/ Show
    \/ PlayPause
    \/ Restart
    \/ InputSpeed
    \/ NoInput
    \/ Recalculate
    \/ CloseWindow
    \/ DeleteInstance

SpecWidget == InitWidget /\ [][NextWidget]_vars

(* ------------- OpenGLWidget::show(instance, FreezeTagSolution) -------- *)
\* The instance shown by SpecTag: three satellites 0, 1, 2 and the links
\* 0 -> 1, 1 -> 2, 2 -> 0 (getV1Idx -> getV2Idx), numbered from 1 here.
TagISLs ==
    <<[V1Idx |-> 0, V2Idx |-> 1], [V1Idx |-> 1, V2Idx |-> 2], [V1Idx |-> 2, V2Idx |-> 0]>>
\* The scans of a solution: a link and the time it is scheduled at.
Scans == {[first |-> e, second |-> t] : e \in 1..Len(TagISLs), t \in 0..MaxScanTime}

\* edge_order.insert({t, edge}): a multimap keeps its keys in order and puts
\* a new element after the elements of the same key.
MultimapInsert(order, t, edge) ==
    LET before == Cardinality({i \in 1..Len(order) : order[i].first <= t})
    IN  SubSeq(order, 1, before) \o <<[first |-> t, second |-> edge]>>
            \o SubSeq(order, before + 1, Len(order))

RECURSIVE FillEdgeOrder(_, _)
\* The loop over solution.scan_cover (opengl_widgets.cpp:318-323).
FillEdgeOrder(scan_cover, order) ==
    IF scan_cover = <<>> THEN order
    ELSE FillEdgeOrder(Tail(scan_cover),
                       MultimapInsert(order, Head(scan_cover).second, Head(scan_cover).first))

RECURSIVE ScanTime(_, _)
\* scan_time after the same loop.
ScanTime(scan_cover, scan_time) ==
    IF scan_cover = <<>> THEN scan_time
    ELSE ScanTime(Tail(scan_cover), Max(scan_time, Head(scan_cover).second))

\* "satellites_done[sat] = t" on a std::map.
Put(done, sat, t) == [s \in DOMAIN done \cup {sat} |-> IF s = sat THEN t ELSE done[s]]

TransferBad(done, isl, t) ==
    IF isl.V2Idx \in DOMAIN done THEN Put(done, isl.V1Idx, t)
    ELSE IF isl.V1Idx \in DOMAIN done THEN Put(done, isl.V2Idx, t)
    ELSE done
\* The body of the loop over edge_order (opengl_widgets.cpp:333-344).
Transfer(done, isl, t) ==
    IF isl.V1Idx \notin DOMAIN done /\ isl.V2Idx \in DOMAIN done
    THEN Put(done, isl.V1Idx, t)
    ELSE IF isl.V1Idx \in DOMAIN done /\ isl.V2Idx \notin DOMAIN done
    THEN Put(done, isl.V2Idx, t)
    ELSE done

\* A widget has been constructed; no instance is shown.
InitTag ==
    /\ SolverIdle
    /\ instances = [s \in Slots |-> NoInstance]
    /\ last = NoOp
    /\ disk = NoFile
    /\ widget = NoWidget

\* show(instance, solution, t0) up to the loop over edge_order
\* (opengl_widgets.cpp:311-330).
TagStart ==
    /\ widget.pc = "closed"
    /\ \E scan_cover \in SeqsUpTo(Scans, MaxScans), carriers \in SUBSET {0, 1, 2} :
          widget' = [widget EXCEPT
                        !.pc = "tag", !.event = "tag",
                        !.scan_cover = scan_cover,
                        !.satellites_with_message = carriers,
                        !.edge_order = FillEdgeOrder(scan_cover, <<>>),
                        !.scan_time = ScanTime(scan_cover, 0),
                        !.satellites_done = [s \in carriers |-> 0],
                        !.next = 1]
    /\ UNCHANGED nonWidgetVars

\* One turn of the loop over edge_order (opengl_widgets.cpp:332-345).
TagStep ==
    /\ widget.pc = "tag"
    /\ widget.next <= Len(widget.edge_order)
    /\ LET it == widget.edge_order[widget.next]
       IN  widget' = [widget EXCEPT
                         !.satellites_done = Transfer(@, TagISLs[it.second], it.first),
                         !.next = @ + 1]
    /\ UNCHANGED nonWidgetVars

\* The loop is over: the satellite animations are added and the instance is
\* shown (opengl_widgets.cpp:347-353).
TagShow ==
    /\ widget.pc = "tag"
    /\ widget.next > Len(widget.edge_order)
    /\ \E t0 \in 0..MaxScanTime :
          widget' = show(widget,
                         {[satellite |-> s, t_begin |-> widget.satellites_done[s],
                           t_end |-> widget.scan_time] :
                              s \in DOMAIN widget.satellites_done},
                         t0)
    /\ UNCHANGED nonWidgetVars

NextTag ==
    \/ TagStart
    \/ TagStep
    \/ TagShow

SpecTag == InitTag /\ [][NextTag]_vars

(* ------------------------------ claims -------------------------------- *)
NCReturned == pc = "done" /\ ret.op = "nextCommunication"
NCFinite == NCReturned /\ ~IsInf(ret.value)

\* C1: whenever nextCommunication returns a finite time t, the link is
\* unblocked at t and canAlign holds at t, on every return path.
C1_ReturnedTimeFeasible ==
    NCFinite =>
        /\ ~isBlocked(edges[ret.edge], ret.value)
        /\ canAlign(satellite_orientation[ret.edge], ret.value)

\* The cache shows link i visible at time x: the phase of x lies in a cached
\* interval [t_begin, t_end).
VisibleInCache(i, x) ==
    InSlot(edge_time_slots[i], fmod(x, getPeriod(edges[i])))
\* The phase of x is the begin of a cached interval.
AtSlotBegin(i, x) ==
    fmod(x, getPeriod(edges[i])) \in SlotStarts(edge_time_slots[i])

\* C1 amended: whenever nextCommunication returns a finite time t, canAlign
\* holds at t; on a return from the search loop the link is unblocked at t;
\* on the direct return t is visible according to the cache (its phase lies
\* in a cached interval or is the begin of one), and the link is unblocked
\* at t when that phase is a sample of the cache's grid.
C1_FeasibleUpToCache ==
    NCFinite =>
        /\ canAlign(satellite_orientation[ret.edge], ret.value)
        /\ ret.path = "loop" => ~isBlocked(edges[ret.edge], ret.value)
        /\ ret.path = "direct" =>
              /\ VisibleInCache(ret.edge, ret.value) \/ AtSlotBegin(ret.edge, ret.value)
              /\ fmod(ret.value, getPeriod(edges[ret.edge])) % step_size = 0
                    => ~isBlocked(edges[ret.edge], ret.value)

\* C1 witness: the search loop returned the begin of a cached slot of a later
\* period, reached by a jump over a blocked stretch.
C1_Witness ==
    /\ NCFinite
    /\ ret.path = "loop"
    /\ AtSlotBegin(ret.edge, ret.value)
    /\ isBlocked(edges[ret.edge], ret.value - 1)
    /\ ret.value >= getPeriod(edges[ret.edge])
    /\ ret.value > call.t_visible + step_size

\* The search grid of a call: nextVisibility(link, t0) + k * step_size.
OnSearchGrid(t) ==
    /\ t >= call.t_visible
    /\ (t - call.t_visible) % step_size = 0

Feasible(i, t) ==
    ~isBlocked(edges[i], t) /\ canAlign(satellite_orientation[i], t)

\* C2: when nextCommunication returns a finite t, no time t' of the search
\* grid with t0 <= t' < t is both unblocked and alignable.
C2_EarliestOnGrid ==
    NCFinite =>
        \A t \in ret.time_0..(ret.value - 1) :
            OnSearchGrid(t) => ~Feasible(ret.edge, t)

\* C3: nextCommunication(link, t0) >= nextVisibility(link, t0), +infinity
\* being larger than every finite time.
C3_NotBeforeVisibility ==
    NCReturned => ret.value >= nextVisibility(ret.edge, ret.time_0)

\* C3 witness: a search that returned a time later than the next visibility.
C3_Witness ==
    /\ NCFinite
    /\ ret.path = "loop"
    /\ ret.value > nextVisibility(ret.edge, ret.time_0)
    /\ isBlocked(edges[ret.edge], call.t_visible + step_size)
NVReturned == pc = "done" /\ ret.op = "nextVisibility"

\* C4: nextVisibility(link, t0) >= t0 for every t0 >= 0, also for t0 in a
\* later period and when the next slot is reached by wrapping.
C4_NotBeforeStart == NVReturned => ret.value >= ret.time_0

\* C4 witness: t0 lies in a later period and the result is the first slot of
\* the period after it.
C4_Witness ==
    /\ NVReturned
    /\ ~IsInf(ret.value)
    /\ ret.time_0 >= getPeriod(edges[ret.edge])
    /\ nextTimeWithEvent(edge_time_slots[ret.edge],
                         fmod(ret.time_0, getPeriod(edges[ret.edge])))
          < fmod(ret.time_0, getPeriod(edges[ret.edge]))
    /\ ret.value > ret.time_0

\* C5 as stated: a finite result of nextVisibility is a time at which the
\* cache shows the link visible; it is t0 when the cache shows the link
\* visible at t0; and the cache shows the link visible at no time of
\* [t0, result).
C5_EarliestInCachedInterval ==
    (NVReturned /\ ~IsInf(ret.value)) =>
        /\ VisibleInCache(ret.edge, ret.value)
        /\ VisibleInCache(ret.edge, ret.time_0) => ret.value = ret.time_0
        /\ \A x \in ret.time_0..(ret.value - 1) : ~VisibleInCache(ret.edge, x)

\* C5 amended: a finite result of nextVisibility is the earliest time
\* >= t0 whose phase lies in a cached interval or is the begin of one (a run
\* of one sample is cached as the empty interval [a, a)).
C5_EarliestInCache ==
    (NVReturned /\ ~IsInf(ret.value)) =>
        /\ VisibleInCache(ret.edge, ret.value) \/ AtSlotBegin(ret.edge, ret.value)
        /\ VisibleInCache(ret.edge, ret.time_0) => ret.value = ret.time_0
        /\ \A x \in ret.time_0..(ret.value - 1) :
              ~VisibleInCache(ret.edge, x) /\ ~AtSlotBegin(ret.edge, x)

\* C5 witness: the result lies past t0, in a later period than t0.
C5_Witness ==
    /\ NVReturned
    /\ ~IsInf(ret.value)
    /\ ret.value > ret.time_0
    /\ ret.value \div getPeriod(edges[ret.edge])
          > ret.time_0 \div getPeriod(edges[ret.edge])
    /\ Len(edge_time_slots[ret.edge]) >= 2

\* C6: nextVisibility returns +infinity exactly when the link's cache is
\* empty, and nextCommunication then returns +infinity without entering its
\* search loop.
C6_InfinityIffEmptyCache ==
    /\ NVReturned => (IsInf(ret.value) <=> Len(edge_time_slots[ret.edge]) = 0)
    /\ (NCReturned /\ Len(edge_time_slots[ret.edge]) = 0) =>
          (IsInf(ret.value) /\ ret.path = "never_visible")
    /\ pc \in {"comm", "diverged"} => Len(edge_time_slots[call.edge]) > 0

\* C6 witness: nextCommunication returned on a link that is blocked at every
\* sample, so that its cache is empty.
C6_Witness ==
    /\ NCReturned
    /\ Len(edge_time_slots[ret.edge]) = 0
    /\ IsInf(ret.value)

\* C7: nextCommunication always terminates: its search loop never reaches a
\* point from which it runs forever.
C7_SearchTerminates == pc # "diverged"

\* C8: every finite result t of nextCommunication(link, t0) satisfies
\* t <= t0 + max(pi / rotationSpeed1, pi / rotationSpeed2) + period.
C8_WithinHorizon ==
    NCFinite => ret.value <= ret.time_0 + SearchHorizon(edges[ret.edge])
LBReturned == pc = "done" /\ ret.op = "lowerBound"
FirstVisibility(i) == nextVisibility(i, 0)

GridSamples(edge) == {t \in 0..(getPeriod(edge) - 1) : t % step_size = 0}
\* The first sample of each maximal run of consecutive unblocked samples.
RunStarts(edge) ==
    {t \in GridSamples(edge) :
        /\ ~isBlocked(edge, t)
        /\ t = 0 \/ isBlocked(edge, t - step_size)}

\* C10: after createCache a link's cache holds exactly one interval per
\* maximal run of unblocked samples of the grid within [0, period), beginning
\* at the first sample of the run.
C10_OneSlotPerRun ==
    pc # "new" =>
        \A i \in 1..Len(edges) :
            /\ SlotStarts(edge_time_slots[i]) = RunStarts(edges[i])
            /\ Len(edge_time_slots[i]) = Cardinality(RunStarts(edges[i]))

\* C10 witness: a link with two runs, one of them of several samples.
C10_Witness ==
    /\ pc = "ready"
    /\ \E i \in 1..Len(edges) :
          /\ Cardinality(RunStarts(edges[i])) >= 2
          /\ \E k \in 1..Len(edge_time_slots[i]) :
                /\ edge_time_slots[i][k].t_end > edge_time_slots[i][k].t_begin
                /\ edge_time_slots[i][k].t_end < getPeriod(edges[i])
\* The claims on createCache are stated of the state it leaves (pc = "ready");
\* no query writes the cache.
\* Grid samples of [0, period) within the half-open [t_begin, t_end).
SamplesInside(edge, slot) ==
    {g \in GridSamples(edge) : slot.t_begin <= g /\ g < slot.t_end}
\* Grid samples of [0, period) within the closed [t_begin, t_end].
SamplesWithin(edge, slot) ==
    {g \in GridSamples(edge) : slot.t_begin <= g /\ g <= slot.t_end}
\* The grid samples of [0, period) next to the interval on either side.
SamplesBeside(edge, slot) ==
    {g \in GridSamples(edge) :
        \/ g + step_size = slot.t_begin
        \/ g > slot.t_end /\ g - step_size <= slot.t_end}
UnblockedSamples(edge) == {g \in GridSamples(edge) : ~isBlocked(edge, g)}

\* C11 as stated: every grid sample inside an interval [t_begin, t_end) of
\* the cache is unblocked, every unblocked grid sample of [0, period) is
\* inside some interval, and the grid samples next to an interval are blocked.
C11_SamplesCoveredHalfOpen ==
    pc = "ready" =>
        \A i \in 1..Len(edges) :
            LET tl == edge_time_slots[i]
            IN  /\ \A k \in 1..Len(tl) :
                      /\ \A g \in SamplesInside(edges[i], tl[k]) : ~isBlocked(edges[i], g)
                      /\ \A g \in SamplesBeside(edges[i], tl[k]) : isBlocked(edges[i], g)
                /\ \A g \in UnblockedSamples(edges[i]) :
                      \E k \in 1..Len(tl) : g \in SamplesInside(edges[i], tl[k])

\* C11 amended: t_end is the last unblocked sample of the run (or the
\* period), so the statement holds of the closed [t_begin, t_end]: every
\* grid sample within it is unblocked, every unblocked grid sample of
\* [0, period) is within some interval, and the grid samples next to an
\* interval are blocked.
C11_SamplesCoveredClosed ==
    pc = "ready" =>
        \A i \in 1..Len(edges) :
            LET tl == edge_time_slots[i]
            IN  /\ \A k \in 1..Len(tl) :
                      /\ \A g \in SamplesWithin(edges[i], tl[k]) : ~isBlocked(edges[i], g)
                      /\ \A g \in SamplesBeside(edges[i], tl[k]) : isBlocked(edges[i], g)
                /\ \A g \in UnblockedSamples(edges[i]) :
                      \E k \in 1..Len(tl) : g \in SamplesWithin(edges[i], tl[k])

\* C11 witness: a cached interval of several samples that ends before the
\* period, with a blocked sample on either side.
C11_Witness ==
    /\ pc = "ready"
    /\ \E i \in 1..Len(edges) : \E k \in 1..Len(edge_time_slots[i]) :
          LET slot == edge_time_slots[i][k]
          IN  /\ Cardinality(SamplesWithin(edges[i], slot)) >= 2
              /\ Cardinality(SamplesBeside(edges[i], slot)) = 2

\* C12: createCache produces a link's intervals in strictly increasing start
\* order, each beginning after the end of the one before it, and the cache
\* holds them in that order.
C12_IncreasingDisjoint ==
    pc = "ready" =>
        \A i \in 1..Len(edges) :
            LET slots == ProducedSlots(edges[i], 0, <<>>)
            IN  /\ edge_time_slots[i] = slots
                /\ \A k \in 1..(Len(slots) - 1) :
                      /\ slots[k + 1].t_begin > slots[k].t_begin
                      /\ slots[k + 1].t_begin > slots[k].t_end

\* C12 witness: a cache of two intervals, the first of several samples.
C12_Witness ==
    /\ pc = "ready"
    /\ \E i \in 1..Len(edges) :
          /\ Len(edge_time_slots[i]) >= 2
          /\ edge_time_slots[i][1].t_end > edge_time_slots[i][1].t_begin

\* The link is unblocked at the last grid sample before the end of the
\* period and at the grid sample that follows it.
UnblockedAcrossPeriodEnd(edge) ==
    \E g \in GridSamples(edge) :
        /\ g + step_size >= getPeriod(edge)
        /\ ~isBlocked(edge, g)
        /\ ~isBlocked(edge, g + step_size)

\* C13: every cached interval satisfies 0 <= t_begin <= t_end <= period; a
\* link still unblocked at the end of the period has its last interval end
\* exactly at the period; a link that is never blocked has the single
\* interval [0, period).
C13_WithinPeriod ==
    pc = "ready" =>
        \A i \in 1..Len(edges) :
            LET tl == edge_time_slots[i]
                period == getPeriod(edges[i])
            IN  /\ \A k \in 1..Len(tl) :
                      /\ 0 <= tl[k].t_begin
                      /\ tl[k].t_begin <= tl[k].t_end
                      /\ tl[k].t_end <= period
                /\ UnblockedAcrossPeriodEnd(edges[i]) =>
                      Len(tl) > 0 /\ tl[Len(tl)].t_end = period
                /\ edges[i].blocked = {} =>
                      tl = <<[t_begin |-> 0, t_end |-> period]>>

\* C13 witness: one link never blocked, another one blocked at first and
\* unblocked across the end of the period.
C13_Witness ==
    /\ pc = "ready"
    /\ \E i, j \in 1..Len(edges) :
          /\ edges[i].blocked = {}
          /\ Len(edge_time_slots[i]) = 1
          /\ isBlocked(edges[j], 0)
          /\ Len(edge_time_slots[j]) > 0
          /\ edge_time_slots[j][Len(edge_time_slots[j])].t_end = getPeriod(edges[j])

\* C14: a link blocked at every grid sample of [0, period) gets an empty
\* cache.
C14_AllBlockedEmpty ==
    pc = "ready" =>
        \A i \in 1..Len(edges) :
            UnblockedSamples(edges[i]) = {} => edge_time_slots[i] = <<>>

\* C14 witness: a link blocked at every grid sample but not at every tick
\* has an empty cache.
C14_Witness ==
    /\ pc = "ready"
    /\ \E i \in 1..Len(edges) :
          /\ UnblockedSamples(edges[i]) = {}
          /\ edges[i].blocked # 0..(getPeriod(edges[i]) - 1)
          /\ edge_time_slots[i] = <<>>
(* --------------------------- Instance claims -------------------------- *)
Alive == {s \in Slots : instances[s].alive}
LinkRefs(inst) == UNION {{inst.edges[k].v1, inst.edges[k].v2} : k \in 1..Len(inst.edges)}
\* The last operation made or overwrote last.target from another object.
Copied == last.op \in {"copy", "assign"} /\ last.target # last.source

\* C15: every link of an Instance references two orbits of that Instance's
\* own orbit sequence, no reference is null, and after a copy or an
\* assignment no link of the target references an orbit of the source.
C15_ReferenceIntegrity ==
    /\ \A s \in Alive : \A p \in LinkRefs(instances[s]) :
          OwnOrbit(instances[s], p) /\ p # Null
    /\ Copied =>
          \A p \in LinkRefs(instances[last.target]) :
              ~OwnOrbit(instances[last.source], p)

\* C15 witness: an assignment has replaced the links of its target by two
\* links, after removeInvalidEdges had run on the source.
C15_Witness ==
    /\ last.op = "assign"
    /\ last.target # last.source
    /\ last.held > Len(instances[last.source].edges)
    /\ Len(instances[last.target].edges) > 0
    /\ instances[last.target].buf # 1

\* The position in inst.orbits of the orbit at address p, 0 when p is no
\* address of an orbit of inst.
OrbitIndex(inst, p) == IF OwnOrbit(inst, p) THEN p.idx ELSE 0

\* C16: after a copy construction or a copy assignment the target has the
\* orbits of the source in the same order, as many links, the same radius
\* and gravitational parameter, and its i-th link joins the orbits of the
\* same two indices, in the same order, as the i-th link of the source; no
\* link the target held before an assignment is left.
C16_CopyPreservesStructure ==
    Copied =>
        LET target == instances[last.target]
            source == instances[last.source]
        IN  /\ target.orbits = source.orbits
            /\ Len(target.edges) = Len(source.edges)
            /\ target.radius_central_mass = source.radius_central_mass
            /\ target.gravitational_parameter = source.gravitational_parameter
            /\ \A k \in 1..Len(source.edges) :
                  /\ OrbitIndex(target, target.edges[k].v1) > 0
                  /\ OrbitIndex(target, target.edges[k].v2) > 0
                  /\ OrbitIndex(target, target.edges[k].v1)
                        = OrbitIndex(source, source.edges[k].v1)
                  /\ OrbitIndex(target, target.edges[k].v2)
                        = OrbitIndex(source, source.edges[k].v2)

\* C16 witness: an assignment to a target that held links, from a source of
\* two different orbits and a link from the second to the first.
C16_Witness ==
    /\ last.op = "assign"
    /\ last.target # last.source
    /\ last.held > 0
    /\ LET target == instances[last.target]
       IN  /\ Len(target.orbits) = 2
           /\ target.orbits[1] # target.orbits[2]
           /\ \E k \in 1..Len(target.edges) :
                 target.edges[k].v1.idx > target.edges[k].v2.idx

\* C17: no link of an Instance is a self-loop: its two references are
\* different orbits.
C17_NoSelfLoop ==
    \A s \in Alive : \A k \in 1..Len(instances[s].edges) :
        instances[s].edges[k].v1 # instances[s].edges[k].v2

\* What a file can set in an Instance.
Content(inst) ==
    <<inst.radius_central_mass, inst.gravitational_parameter, inst.orbits, inst.edges>>
\* A record with a malformed numeric field, or a link record with an orbit
\* index that is negative or not below the number of orbits.
BadRecord(inst, line) ==
    /\ ~line.end
    /\ \/ \E k \in 1..Len(line.fields) : ~line.fields[k].ok
       \/ /\ inst.mode = READ_EDGE
          /\ AtThrows(inst, line.fields[1].value) \/ AtThrows(inst, line.fields[2].value)
\* inst2 is inst with the well-formed record line loaded.
LoadedRecord(inst, line, inst2) ==
    /\ inst.mode = READ_INIT =>
          /\ inst2.radius_central_mass = line.fields[1].value
          /\ inst2.gravitational_parameter = line.fields[2].value
    /\ inst.mode = READ_ORBIT => Len(inst2.orbits) = Len(inst.orbits) + 1
    /\ inst.mode = READ_EDGE => Len(inst2.edges) = Len(inst.edges) + 1

\* C18: whatever the loader has read so far, reading a record with a
\* malformed numeric field, or a link record with an out-of-range or negative
\* orbit index, changes nothing in the Instance, and reading a well-formed
\* record loads it.
C18_BadRecordSkipped ==
    \A s \in Alive :
        instances[s].loading =>
            \A line \in NextLines(instances[s].mode) \ {EndLine} :
                LET inst == instances[s]
                    inst2 == ReadLine(inst, line)
                IN  IF BadRecord(inst, line)
                    THEN Content(inst2) = Content(inst)
                    ELSE LoadedRecord(inst, line, inst2)

(* ---------------------------- lineGraph claims ------------------------ *)
\* Links i and j of inst have an orbit in common.
ShareEndpoint(inst, i, j) ==
    {inst.edges[i].v1, inst.edges[i].v2} \cap {inst.edges[j].v1, inst.edges[j].v2} # {}
Members(list) == {list[k] : k \in 1..Len(list)}

\* C19: in the graph lineGraph returns, link j is in the list of link i,
\* i # j, if and only if the links i and j share an orbit.
C19_AdjacentIffShared ==
    last.op = "lineGraph" =>
        LET inst == instances[last.target]
        IN  \A i, j \in 1..Len(inst.edges) :
                i # j => (j \in Members(last.graph[i]) <=> ShareEndpoint(inst, i, j))

\* C19 witness: a graph of three links, two that share an orbit through
\* different ends and one that shares none with the first.
C19_Witness ==
    /\ last.op = "lineGraph"
    /\ LET inst == instances[last.target]
       IN  /\ Len(inst.edges) = 3
           /\ inst.edges[1].v2 = inst.edges[2].v1
           /\ inst.edges[1].v1 # inst.edges[2].v2
           /\ 2 \in Members(last.graph[1])
           /\ ~ShareEndpoint(inst, 1, 3)
           /\ 3 \notin Members(last.graph[1])

\* C20: the graph has one list per link, no list holds its own index, no
\* list holds an index twice, and j is in list i exactly when i is in list j.
C20_GraphWellFormed ==
    last.op = "lineGraph" =>
        LET inst == instances[last.target]
            g == last.graph
        IN  /\ Len(g) = Len(inst.edges)
            /\ \A i \in 1..Len(g) :
                  /\ i \notin Members(g[i])
                  /\ Cardinality(Members(g[i])) = Len(g[i])
                  /\ \A j \in 1..Len(g) : j \in Members(g[i]) <=> i \in Members(g[j])

\* C20 witness: two links that join the same pair of orbits and a third
\* that shares an orbit with both.
C20_Witness ==
    /\ last.op = "lineGraph"
    /\ LET inst == instances[last.target]
       IN  /\ Len(inst.edges) = 3
           /\ inst.edges[1] = inst.edges[2]
           /\ inst.edges[1].v1 # inst.edges[1].v2
           /\ Len(last.graph[3]) = 2
           /\ Len(last.graph[1]) = 2

(* ------------------------------- C23 ---------------------------------- *)
\* A step of a query: the call of nextVisibility, lowerBound or
\* nextCommunication, or an iteration of the loop of nextCommunication.
InQuery == pc \in {"ready", "comm"}

\* C23: a query leaves the visibility cache, the set of its entries
\* included, and the tracked satellite orientations unchanged.
C23_QueriesPure ==
    [][InQuery => UNCHANGED <<edge_time_slots, cached, satellite_orientation>>]_vars

(* ------------------------------- C25 ---------------------------------- *)
\* An iteration of the search loop of nextCommunication runs in this step.
LoopIterates ==
    /\ pc = "comm"
    /\ pc' \in {"comm", "done"}
    /\ call.t <= call.time_0 + call.t_max

\* The begin, at or after time t, of the next cached interval of link i.
NextSlotStart(i, t) ==
    LET period == getPeriod(edges[i])
        phase == t % period
        starts == SlotStarts(edge_time_slots[i])
        later == {b \in starts : b >= phase}
    IN  IF later # {} THEN (t - phase) + MinOf(later)
        ELSE (t - phase) + period + MinOf(starts)

\* What an iteration that starts at call.t and tests the time at does next:
\* it returns at, or goes on from at + step_size.
IterationTests(at) ==
    /\ at >= call.t
    /\ call'.t >= call.t
    /\ pc' = "done" => ret'.value = at /\ call'.t = at
    /\ pc' = "comm" => call'.t = at + step_size

\* C25: in the search loop t never decreases; an iteration that finds the
\* link blocked at t jumps forward to the begin of the next cached interval,
\* and an iteration that does not return advances t by step_size.
C25_JumpToNextSlot ==
    [][LoopIterates =>
          IterationTests(IF isBlocked(edges[call.edge], call.t)
                         THEN NextSlotStart(call.edge, call.t)
                         ELSE call.t)]_vars

\* C25 amended: as C25, but an iteration that finds the link blocked at a
\* time t whose phase the cache shows inside an interval does not jump.
C25_JumpUnlessCachedVisible ==
    [][LoopIterates =>
          IterationTests(IF /\ isBlocked(edges[call.edge], call.t)
                            /\ ~VisibleInCache(call.edge, call.t)
                         THEN NextSlotStart(call.edge, call.t)
                         ELSE call.t)]_vars

\* C25 witness: the loop goes on after a jump that took t off the grid of
\* t_visible and onto the begin of a cached interval.
C25_Witness ==
    /\ pc = "comm"
    /\ step_size = 2
    /\ (call.t - call.t_visible) % 2 = 1
    /\ AtSlotBegin(call.edge, call.t - step_size)
    /\ isBlocked(edges[call.edge], call.t - step_size - 1)

(* ------------------------------- C27 ---------------------------------- *)
\* C27: for a link with a non-empty cache, a start time later by k whole
\* periods gives a next visibility later by k whole periods.
C27_PeriodicInStartTime ==
    (NVReturned /\ Len(edge_time_slots[ret.edge]) > 0) =>
        \A k \in 0..MaxShift :
            nextVisibility(ret.edge, ret.time_0 + k * getPeriod(edges[ret.edge]))
                = ret.value + k * getPeriod(edges[ret.edge])

\* C27 witness: the link is blocked at the start time, which lies in a later
\* period, and the next visibility lies in the period after it.
C27_Witness ==
    /\ NVReturned
    /\ ~IsInf(ret.value)
    /\ isBlocked(edges[ret.edge], ret.time_0)
    /\ ret.time_0 \div getPeriod(edges[ret.edge]) = 1
    /\ ret.value \div getPeriod(edges[ret.edge]) = 2

(* ------------------------------- C28 ---------------------------------- *)
\* C28: lowerBound returns a finite value that is not negative, and 0 when
\* the instance has no link or each link has an empty cache or the
\* first-visibility time 0.
C28_FiniteNonNegative ==
    LBReturned =>
        /\ ~IsInf(ret.value)
        /\ ret.value >= 0
        /\ (\A i \in 1..Len(edges) :
                \/ Len(edge_time_slots[i]) = 0
                \/ FirstVisibility(i) = 0)
              => ret.value = 0

\* C28 witness: lowerBound returned 0 on an instance with a link that is
\* never visible and a link that is visible at time 0 and blocked later.
C28_Witness ==
    /\ LBReturned
    /\ ret.value = 0
    /\ \E i, j \in 1..Len(edges) :
          /\ Len(edge_time_slots[i]) = 0
          /\ Len(edge_time_slots[j]) > 0
          /\ ~isBlocked(edges[j], 0)
          /\ isBlocked(edges[j], 1)

\* An instance without links, on which lowerBound returned.
C28_NoLinks == LBReturned /\ Len(edges) = 0

(* ------------------------------- C26 ---------------------------------- *)
\* Link e is unblocked at some whole second of its period.
VisibleAtSomeSample(e) ==
    \E t \in 0..(EdgePeriod(e) - 1) : ~EdgeBlocked(e, t)

\* The instance removeInvalidEdges has just returned on keeps all its links
\* under another call.
RemovesNothing ==
    last.op = "removeInvalidEdges" =>
        \A k \in 1..Len(instances[last.target].edges) :
            VisibleAtSomeSample(instances[last.target].edges[k])

\* C26: removeInvalidEdges leaves the links that are unblocked at some whole
\* second of their period, in their order, and no other link; it leaves the
\* orbits, the radius, the gravitational parameter and every other instance
\* as they are; a second call removes nothing.
C26_RemovesExactlyNeverVisible ==
    [][(last.op = "none" /\ last'.op = "removeInvalidEdges") =>
          LET s == last'.target
          IN  /\ instances'[s].edges = SelectSeq(instances[s].edges, VisibleAtSomeSample)
              /\ instances'[s] = [instances[s] EXCEPT !.edges = instances'[s].edges]
              /\ \A o \in Slots \ {s} : instances'[o] = instances[o]
              /\ RemovesNothing']_vars

\* C26 witness: of the two links the instance held, removeInvalidEdges
\* removed one and kept one that is blocked at second 0 and visible later.
C26_Witness ==
    /\ last.op = "removeInvalidEdges"
    /\ last.held = 2
    /\ Len(instances[last.target].edges) = 1
    /\ EdgeBlocked(instances[last.target].edges[1], 0)

(* ------------------------------- C21 ---------------------------------- *)
\* An orbit whose elements are those of orbit o within the precision of a
\* written float.
ShownOrbit(o) ==
    [height_perigee |-> Shown(o.height_perigee), eccentricity |-> Shown(o.eccentricity),
     true_anomaly |-> Shown(o.true_anomaly), raan |-> Shown(o.raan),
     argument_periapsis |-> Shown(o.argument_periapsis),
     inclination |-> Shown(o.inclination), rotation_speed |-> Shown(o.rotation_speed)]

\* The file holds what save writes for the instance s, and the instance just
\* constructed, another one, was read from it.
LoadedFrom(s) ==
    /\ last.op = "load"
    /\ last.result
    /\ last.target # s
    /\ Ready(s)
    /\ disk.lines = SaveLines(instances[s])

C24_FailuresReported ==
    [][/\ (last.op = "none" /\ last'.op = "save") =>
             /\ last'.result = disk.writable
             /\ ~disk.writable => disk' = disk
             /\ disk.writable => disk'.exists
             /\ instances' = instances
       /\ (last.op = "none" /\ last'.op = "load" /\ ~disk.exists) =>
             /\ instances'[last'.target].alive
             /\ ~instances'[last'.target].loading
             /\ instances'[last'.target].orbits = <<>>
             /\ instances'[last'.target].edges = <<>>
             /\ \A o \in Slots \ {last'.target} : instances'[o] = instances[o]]_vars

\* C24 witness: an instance with links could not be saved, and the instance
\* constructed from the file, which does not exist, is empty.
C24_Witness ==
    /\ last.op = "load"
    /\ ~last.result
    /\ ~disk.writable
    /\ Len(instances[last.target].orbits) = 0
    /\ \E s \in Slots : Len(instances[s].edges) > 0

\* save has returned false.
C24_SaveFailed == last.op = "save" /\ ~last.result

(* ------------------------------- C22 ---------------------------------- *)
SIReturned == pc = "done" /\ ret.op = "sphereIntersection"

\* The line through the two satellites and the sphere of the given radius:
\* no real root; both roots behind satellite 1; both roots at or beyond the
\* distance of the satellites.
NoRealRoot(sat1, sat2, radius) == Discr(sat1, sat2, radius) < 0
BothBehind(sat1, sat2, radius) ==
    /\ Below(PlusRoot(-RayA(sat1, sat2), Discr(sat1, sat2, radius)), 0)
    /\ Below(MinusRoot(-RayA(sat1, sat2), Discr(sat1, sat2, radius)), 0)
BothBeyond(sat1, sat2, radius) ==
    /\ ~Below(PlusRoot(-RayA(sat1, sat2), Discr(sat1, sat2, radius)),
              length(Minus(sat1, sat2)))
    /\ ~Below(MinusRoot(-RayA(sat1, sat2), Discr(sat1, sat2, radius)),
              length(Minus(sat1, sat2)))

\* C22: sphereIntersection reports not blocked when, for the sphere of the
\* radius the link was given, there is no real root, or both roots lie
\* behind satellite 1, or both lie at or beyond the distance of the
\* satellites, and blocked in every other case.
C22_OcclusionByGivenRadius ==
    SIReturned =>
        LET sat1 == cartesian_coordinates(edges[ret.edge].v1, ret.time_0)
            sat2 == cartesian_coordinates(edges[ret.edge].v2, ret.time_0)
            radius == edges[ret.edge].radius_central_mass
        IN  ret.value <=> ~(\/ NoRealRoot(sat1, sat2, radius)
                            \/ BothBehind(sat1, sat2, radius)
                            \/ BothBeyond(sat1, sat2, radius))

\* What sphereIntersection reports instead: the same for the sphere of
\* radius_earth, whatever radius the link was given, a line that touches
\* the sphere counting as one with no real root.
C22_ByEarthRadius ==
    SIReturned =>
        LET sat1 == cartesian_coordinates(edges[ret.edge].v1, ret.time_0)
            sat2 == cartesian_coordinates(edges[ret.edge].v2, ret.time_0)
        IN  ret.value <=> ~(\/ Discr(sat1, sat2, radius_earth) <= 0
                            \/ BothBehind(sat1, sat2, radius_earth)
                            \/ BothBeyond(sat1, sat2, radius_earth))

(* ------------------------------- C30 ---------------------------------- *)
\* The members of the widget other than where it is in its code and what it
\* did last.
Members30(w) == <<w.state, w.paused, w.sim_time, w.sim_speed, w.animation>>

\* This step is a frame update (recalculate), a press of "Restart", a show,
\* a deleteInstance outside show, a press of "Play"/"Pause".
FrameUpdate == widget.pc = "render" /\ widget'.event = "frame"
RestartPressed == widget.pc = "gui" /\ widget'.event = "restart"
ShowCalled == widget.pc = "closed" /\ widget'.event = "show"
DeleteCalled == widget.pc = "closed" /\ widget'.event = "deleteInstance"
PlayPausePressed == widget.pc = "gui" /\ widget'.event = "play_pause"

\* C30: the simulated time changes only in a frame update with an instance
\* loaded and the simulation not paused, which adds DeltaTime * sim_speed, in
\* a restart, in a show and in deleteInstance; a restart leaves it 0 with
\* sim_speed 1, a show leaves it t0 with an instance loaded, deleteInstance
\* leaves it 0 with state EMPTY; a frame update while paused or with state
\* EMPTY leaves it as it is; Play/Pause changes the paused flag and no other
\* member.
C30_SimTimeChanges ==
    [][/\ widget'.sim_time # widget.sim_time =>
             \/ FrameUpdate /\ widget.state # "EMPTY" /\ ~widget.paused
             \/ RestartPressed
             \/ ShowCalled
             \/ DeleteCalled
       /\ FrameUpdate =>
             widget'.sim_time =
                 IF widget.state # "EMPTY" /\ ~widget.paused
                 THEN widget.sim_time + widget'.diff * widget.sim_speed
                 ELSE widget.sim_time
       /\ RestartPressed => widget'.sim_time = 0 /\ widget'.sim_speed = 1
       /\ ShowCalled => widget'.sim_time = widget'.t0 /\ widget'.state = "INSTANCE"
       /\ DeleteCalled => widget'.sim_time = 0 /\ widget'.state = "EMPTY"
       /\ PlayPausePressed =>
             /\ widget'.paused = ~widget.paused
             /\ Members30(widget') = Members30([widget EXCEPT !.paused = ~@])]_vars

\* C30 witness: a frame of two seconds at speed 2 has just moved the
\* simulated time from the t0 of the show, 0, to 4.
C30_Witness ==
    /\ widget.event = "frame"
    /\ widget.state = "INSTANCE"
    /\ ~widget.paused
    /\ widget.sim_speed = 2
    /\ widget.diff = 2
    /\ widget.t0 = 0
    /\ widget.sim_time = 4

\* A frame update has just left the time of a paused simulation as it was
\* shown, and a deleteInstance has reset a time that was not 0.
C30_PausedFrame ==
    /\ widget.event = "frame"
    /\ widget.paused
    /\ widget.diff > 0
    /\ widget.sim_time = widget.t0
    /\ widget.t0 > 0
C30_Deleted == widget.event = "deleteInstance" /\ widget.t0 > 0 /\ widget.sim_time = 0

(* ------------------------------- C29 ---------------------------------- *)
\* The freeze-tag show is in or past its loop over edge_order.
Tagging == widget.pc = "tag" \/ (widget.pc = "gui" /\ widget.next > 0)

\* edge_order holds the scans of the solution, each as often as scan_cover,
\* in non-decreasing time.
OrderedByScanTime ==
    /\ \A i, j \in 1..Len(widget.edge_order) :
          i < j => widget.edge_order[i].first <= widget.edge_order[j].first
    /\ \A scan \in Scans :
          Cardinality({i \in 1..Len(widget.edge_order) :
                          /\ widget.edge_order[i].first = scan.second
                          /\ widget.edge_order[i].second = scan.first})
            = Cardinality({i \in 1..Len(widget.scan_cover) : widget.scan_cover[i] = scan})

\* This step is a turn of the loop over edge_order.
LinkProcessed == widget.pc = "tag" /\ widget'.next = widget.next + 1

\* C29: the links are processed in non-decreasing scan time; a satellite
\* that carries the message at first has receive time 0; a receive time once
\* set is never changed; processing a link with one endpoint that carries
\* the message and one that does not gives the latter the scan time of the
\* link as receive time, and processing any other link changes nothing.
C29_MessageSpreadsInScanOrder ==
    /\ [](Tagging =>
            /\ OrderedByScanTime
            /\ \A s \in widget.satellites_with_message :
                  s \in DOMAIN widget.satellites_done /\ widget.satellites_done[s] = 0)
    /\ [][(Tagging /\ Tagging') =>
             \A s \in DOMAIN widget.satellites_done :
                 /\ s \in DOMAIN widget'.satellites_done
                 /\ widget'.satellites_done[s] = widget.satellites_done[s]]_vars
    /\ [][LinkProcessed =>
             LET it == widget.edge_order[widget.next]
                 v1 == TagISLs[it.second].V1Idx
                 v2 == TagISLs[it.second].V2Idx
                 done == widget.satellites_done
                 carries == DOMAIN done
             IN  IF (v1 \in carries) # (v2 \in carries)
                 THEN /\ DOMAIN widget'.satellites_done = carries \cup {v1, v2}
                      /\ \A s \in {v1, v2} \ carries :
                            widget'.satellites_done[s] = it.first
                 ELSE widget'.satellites_done = done]_vars

\* C29 witness: the loop is over for a solution whose scans were not given in
\* the order of their times; satellite 0 carried the message, satellite 1
\* got it at time 1 and passed it on to satellite 2 at time 2, and the link
\* processed last joins two satellites that both carry it.
C29_Witness ==
    /\ widget.pc = "tag"
    /\ widget.next > Len(widget.edge_order)
    /\ Len(widget.scan_cover) = 3
    /\ widget.scan_cover[1].second > widget.scan_cover[2].second
    /\ widget.satellites_with_message = {0}
    /\ DOMAIN widget.satellites_done = {0, 1, 2}
    /\ widget.satellites_done[1] = 1
    /\ widget.satellites_done[2] = 2
    /\ widget.edge_order[3].second = 3

====
